---- MODULE Spec2Model ----
(***************************************************************************)
(* flac2m4a: a command-line tool that muxes <base>.flac, <base>.jpg and    *)
(* <base>.lrc into <base>.m4a by running ffmpeg as a child process.        *)
(*                                                                         *)
(* The repository holds two variants of the script: src/index.js (with the *)
(* ffmpeg pre-flight check, subtitle extension .lrc) and                   *)
(* src/unnamed/part_000 (no pre-flight check, subtitle extension .lyc).    *)
(* The variable `variant` says which one is running.                       *)
(*                                                                         *)
(* File names, paths and command-line arguments are sequences of           *)
(* one-character strings, so that path.extname, path.basename,             *)
(* String.toLowerCase and the template strings are computed, not assumed.  *)
(***************************************************************************)
EXTENDS Integers, Sequences, FiniteSets, TLC

VARIABLES
  variant,    \* "index" (src/index.js) or "part_000" (src/unnamed/part_000)
  files,      \* names of the entries of process.cwd() (the file system)
  dirEntries, \* the entries of process.cwd() that are directories, not files
  argv,       \* [basename |-> [present, value], lang |-> chars] parsed by yargs
  pc,         \* position of the async call chain main -> processDirectory -> processSingleFile
  allFiles,   \* processDirectory: const allFiles
  flacFiles,  \* processDirectory: const flacFiles
  idx,        \* processDirectory: position of the for..of iterator in flacFiles
  cur,        \* processSingleFile: parameter baseName of the call in progress
  child,      \* the ffmpeg ChildProcess of the runFfmpeg call in progress
  promise,    \* state of the promise returned by that runFfmpeg call
  calls,      \* fs and child_process calls made so far, in order
  log,        \* console.log / console.error lines written so far, in order
  results,    \* how each processSingleFile call has settled so far, in order
  exitCode    \* <<>> while the process runs, <<code>> once it has exited

vars == <<variant, files, dirEntries, argv, pc, allFiles, flacFiles, idx, cur, child,
          promise, calls, log, results, exitCode>>

----------------------------------------------------------------------------
(* Bounds of the model. *)

\* Largest number of entries of a working directory drawn from OddPool.
MaxEntries == 4

\* Largest number of entries of a working directory that are directories.
MaxDirEntries == 1

----------------------------------------------------------------------------
(* Characters and strings. *)

\* String.prototype.toLowerCase on one character.
LowerChar(c) ==
  CASE c = "A" -> "a"
    [] c = "B" -> "b"
    [] c = "C" -> "c"
    [] c = "F" -> "f"
    [] c = "L" -> "l"
    [] OTHER -> c

\* String.prototype.toLowerCase.
toLowerCase(s) == [i \in 1..Len(s) |-> LowerChar(s[i])]

\* s.endsWith(t)
EndsWith(s, t) ==
  /\ Len(t) <= Len(s)
  /\ SubSeq(s, Len(s) - Len(t) + 1, Len(s)) = t

\* Index of the last "." of s, 0 when there is none.
LastDot(s) ==
  LET dots == {i \in 1..Len(s) : s[i] = "."}
  IN  IF dots = {} THEN 0 ELSE CHOOSE i \in dots : \A j \in dots : j <= i

\* path.extname of a name without separators: the text from the last "." on,
\* empty when there is no ".", when the last "." is the first character, or
\* when the name is "..".
extname(p) ==
  LET d == LastDot(p)
  IN  IF d = 0 \/ d = 1 \/ p = <<".", ".">>
      THEN <<>>
      ELSE SubSeq(p, d, Len(p))

\* The last segment of a path: the text after its last "/".
LastSegment(p) ==
  LET seps == {i \in 1..Len(p) : p[i] = "/"}
      last == IF seps = {} THEN 0 ELSE CHOOSE i \in seps : \A j \in seps : j <= i
  IN  SubSeq(p, last + 1, Len(p))

\* path.basename(p, ext); ext = <<>> stands for the one-argument call.
basename(p, ext) ==
  LET b == LastSegment(p)
  IN  IF ext # <<>> /\ Len(ext) <= Len(b)
      THEN IF ext = b THEN <<>>
           ELSE IF EndsWith(b, ext) THEN SubSeq(b, 1, Len(b) - Len(ext))
           ELSE b
      ELSE b

\* path.join(dir, name) for a name without separators or dot segments.
join(dir, name) == dir \o <<"/">> \o name

\* String(n) for an integer n, as characters.
Digits == <<"0", "1", "2", "3", "4", "5", "6", "7", "8", "9">>

RECURSIVE NatStr(_)
NatStr(n) == IF n < 10 THEN <<Digits[n + 1]>>
             ELSE NatStr(n \div 10) \o <<Digits[(n % 10) + 1]>>

IntStr(n) == IF n < 0 THEN <<"-">> \o NatStr(0 - n) ELSE NatStr(n)

----------------------------------------------------------------------------
(* The environment: the program variants, the working directory, argv.     *)

Variants == {"index", "part_000"}

\* process.cwd()
CurrentDir == <<"/", "w">>

\* require('ffmpeg-static'): the path of the bundled ffmpeg binary.
ffmpegPath == <<"/", "n", "/", "f", "f", "m", "p", "e", "g">>

a_flac == <<"a", ".", "f", "l", "a", "c">>
a_jpg  == <<"a", ".", "j", "p", "g">>
a_lrc  == <<"a", ".", "l", "r", "c">>
b_flac == <<"b", ".", "f", "l", "a", "c">>
b_jpg  == <<"b", ".", "j", "p", "g">>
b_lrc  == <<"b", ".", "l", "r", "c">>
c_flac == <<"c", ".", "f", "l", "a", "c">>
c_FLAC == <<"c", ".", "F", "L", "A", "C">>
c_jpg  == <<"c", ".", "j", "p", "g">>
c_lrc  == <<"c", ".", "l", "r", "c">>
c_lyc  == <<"c", ".", "l", "y", "c">>
c_m4a  == <<"c", ".", "m", "4", "a">>
dotflac == <<".", "f", "l", "a", "c">>
c_flac_txt == <<"c", ".", "f", "l", "a", "c", ".", "t", "x", "t">>

\* Two sets of files with the extensions of src/index.js.
PairPool == {a_flac, a_jpg, a_lrc, b_flac, b_jpg, b_lrc}

\* One base name with every extension the two variants look at, in both
\* letter cases for the audio file, the output file that an earlier run has
\* left, and two names that only look like audio.
OddPool == {c_flac, c_FLAC, c_jpg, c_lrc, c_lyc, c_m4a, dotflac, c_flac_txt}

\* The working directories of the model: any files of PairPool, or at most
\* MaxEntries files of OddPool.
Dirs == (SUBSET PairPool) \cup
        {S \in SUBSET OddPool : Cardinality(S) <= MaxEntries}

\* The names that may be the names of directories: the three inputs of the
\* item c of src/index.js.
DirPool == {c_flac, c_jpg, c_lrc}

\* The entries of the directory S that may be directories: at most
\* MaxDirEntries of those named in DirPool.
DirEntriesOf(S) ==
  {D \in SUBSET (S \cap DirPool) : Cardinality(D) <= MaxDirEntries}

\* The orders in which fs.readdirSync may list the set S of names.
RECURSIVE Listings(_)
Listings(S) ==
  IF S = {} THEN {<<>>}
  ELSE UNION {{<<x>> \o l : l \in Listings(S \ {x})} : x \in S}

\* The values of the --lang option: the default 'chi', or one given.
Langs == {<<"c", "h", "i">>, <<"e", "n", "g">>}

\* The [basename] positional: absent (undefined), or a string.
Basenames ==
  {[present |-> FALSE, value |-> <<>>]} \cup
  {[present |-> TRUE, value |-> v] : v \in {<<>>, <<"a">>, <<"c">>}}

Argvs == [basename : Basenames, lang : Langs]

\* JavaScript truthiness of argv.basename: undefined and '' are falsy.
Truthy(b) == b.present /\ b.value # <<>>

----------------------------------------------------------------------------
(* The program's helpers.                                                  *)

\* The subtitle extension the variant builds lycFile with.
lycExt == IF variant = "index" THEN <<".", "l", "r", "c">>
                               ELSE <<".", "l", "y", "c">>

\* processSingleFile: the four paths built from baseName.
flacPath(baseName)   == join(CurrentDir, baseName \o <<".", "f", "l", "a", "c">>)
jpgPath(baseName)    == join(CurrentDir, baseName \o <<".", "j", "p", "g">>)
lycPath(baseName)    == join(CurrentDir, baseName \o lycExt)
outputPath(baseName) == join(CurrentDir, baseName \o <<".", "m", "4", "a">>)

\* fs.existsSync(path), on a file system that tells letter cases apart.
existsSync(path) == \E f \in files : join(CurrentDir, f) = path

\* The fs.existsSync calls that the && chain of processSingleFile makes:
\* it stops at the first path that does not exist.
ExistsCalls(baseName) ==
  LET one(p) == [op |-> "existsSync", path |-> p, args |-> <<>>]
  IN  IF ~existsSync(flacPath(baseName)) THEN <<one(flacPath(baseName))>>
      ELSE IF ~existsSync(jpgPath(baseName))
           THEN <<one(flacPath(baseName)), one(jpgPath(baseName))>>
           ELSE <<one(flacPath(baseName)), one(jpgPath(baseName)),
                  one(lycPath(baseName))>>

\* A faulty condition: the subtitle file is not looked for.
AllInputsExist_NoSubtitle(baseName) ==
  /\ existsSync(flacPath(baseName))
  /\ existsSync(jpgPath(baseName))

\* A faulty condition: an item whose output file exists is left alone.
AllInputsExist_OutputAbsent(baseName) ==
  /\ existsSync(flacPath(baseName))
  /\ existsSync(jpgPath(baseName))
  /\ existsSync(lycPath(baseName))
  /\ ~existsSync(outputPath(baseName))

\* processSingleFile: the condition of its if.
AllInputsExist(baseName) ==
  /\ existsSync(flacPath(baseName))
  /\ existsSync(jpgPath(baseName))
  /\ existsSync(lycPath(baseName))

\* A faulty predicate: the extension is compared without toLowerCase().
IsFlacFile_CaseSensitive(file) == extname(file) = <<".", "f", "l", "a", "c">>

\* processDirectory: the predicate of allFiles.filter.
IsFlacFile(file) == toLowerCase(extname(file)) = <<".", "f", "l", "a", "c">>

\* A faulty scan: the listing is not filtered.
FlacFilesOf_Unfiltered(listing) == listing

\* processDirectory: const flacFiles.
FlacFilesOf(listing) == SelectSeq(listing, IsFlacFile)

\* processDirectory: const baseName of one iteration.
BaseNameOf(flacFile) == basename(flacFile, extname(flacFile))

\* Faulty arguments: the image and the subtitle inputs have changed places,
\* so that input 1 is the subtitle and input 2 the image.
ffmpegArgs_SwappedInputs(flacFile, jpgFile, lycFile, outputFile, lang) ==
  << <<"-i">>, flacFile,
     <<"-i">>, lycFile,
     <<"-i">>, jpgFile,
     <<"-c:a">>, <<"alac">>,
     <<"-c:v">>, <<"copy">>,
     <<"-c:s">>, <<"mov_text">>,
     <<"-map">>, <<"0:a">>,
     <<"-map">>, <<"1:v">>,
     <<"-map">>, <<"2:s">>,
     <<"-metadata:s:s:0">>, <<"language=">> \o lang,
     <<"-disposition:v">>, <<"attached_pic">>,
     <<"-y">>,
     outputFile >>

\* runFfmpeg: const args.
ffmpegArgs(flacFile, jpgFile, lycFile, outputFile, lang) ==
  << <<"-i">>, flacFile,
     <<"-i">>, jpgFile,
     <<"-i">>, lycFile,
     <<"-c:a">>, <<"alac">>,
     <<"-c:v">>, <<"copy">>,
     <<"-c:s">>, <<"mov_text">>,
     <<"-map">>, <<"0:a">>,
     <<"-map">>, <<"1:v">>,
     <<"-map">>, <<"2:s">>,
     <<"-metadata:s:s:0">>, <<"language=">> \o lang,
     <<"-disposition:v">>, <<"attached_pic">>,
     <<"-y">>,
     outputFile >>

\* What settles the result of an item: a 'close' event of the child (code is
\* null when a signal ended it), its 'error' event, or nothing when no child
\* was started.
CloseEvent(code, isNull) == [type |-> "close", code |-> code, isNull |-> isNull]
ErrorEvent == [type |-> "error", code |-> 0, isNull |-> TRUE]
NoEvent == [type |-> "none", code |-> 0, isNull |-> TRUE]

\* The 'close' events of a child that was started.
CloseEvents == {CloseEvent(0, FALSE), CloseEvent(1, FALSE), CloseEvent(0, TRUE)}

\* The 'close' events of the child started for baseName: ffmpeg reads none
\* of its inputs from a directory, and then does not exit with code 0.
CloseEventsOf(baseName) ==
  IF \E f \in dirEntries :
       join(CurrentDir, f) \in {flacPath(baseName), jpgPath(baseName),
                                lycPath(baseName)}
  THEN CloseEvents \ {CloseEvent(0, FALSE)}
  ELSE CloseEvents

\* The 'close' events that follow an 'error' event: the negated errno of spawn.
CloseEventsAfterError == {CloseEvent(0 - 2, FALSE)}

\* A faulty test: `!code`, which is true of the null code of a child that a
\* signal has ended.
CodeIsZero_Falsy(ev) == ev.isNull \/ ev.code = 0

\* runFfmpeg, 'close' handler: code === 0.
CodeIsZero(ev) == ~ev.isNull /\ ev.code = 0

\* `${code}` in the 'close' handler's message.
CodeText(ev) == IF ev.isNull THEN <<"n", "u", "l", "l">> ELSE IntStr(ev.code)

Call(op, path, args) == [op |-> op, path |-> path, args |-> args]
Out(text) == [stream |-> "stdout", text |-> text]
Err(text) == [stream |-> "stderr", text |-> text]

----------------------------------------------------------------------------
(* The state after the module has loaded: argv is parsed and main() is     *)
(* about to run.                                                           *)

NoPromises == [runFfmpeg |-> "none", processSingleFile |-> "none",
               processDirectory |-> "none", main |-> "none"]

Init ==
  /\ variant \in Variants
  /\ files \in Dirs
  /\ dirEntries \in DirEntriesOf(files)
  /\ argv \in Argvs
  /\ pc = "main"
  /\ allFiles = <<>>
  /\ flacFiles = <<>>
  /\ idx = 0
  /\ cur = <<>>
  /\ child = "none"
  /\ promise = NoPromises
  /\ calls = <<>>
  /\ log = <<>>
  /\ results = <<>>
  /\ exitCode = <<>>

----------------------------------------------------------------------------
(* main                                                                    *)

\* main, lines 54-57 of src/index.js: ensureFfmpegIsAvailable() and the
\* process.exit(1) that follows a false result.  The binary is there, or
\* the install script downloads it, or the install script throws.
EnsureFfmpegIsAvailable ==
  /\ variant = "index"
  /\ pc = "main"
  /\ \E outcome \in {"present", "installed", "installFailed"} :
       LET check   == Call("existsSync", ffmpegPath, <<>>)
           install == Call("execFileSync", <<"n", "o", "d", "e">>,
                           << <<"install.js">> >>)
           notice  == << Out(<<"FFmpeg binary not found. Attempting to download it now...">>),
                         Out(<<"This may take a moment.">>) >>
       IN  /\ calls' = IF outcome = "present" THEN Append(calls, check)
                       ELSE calls \o <<check, install>>
           /\ log' = CASE outcome = "present" -> log
                       [] outcome = "installed" ->
                            log \o notice \o
                            << Out(<<"FFmpeg downloaded successfully.">>) >>
                       [] OTHER ->
                            log \o notice \o
                            << Err(<<"Failed to download FFmpeg automatically.">>),
                               Err(<<"Please check your network connection or try installing FFmpeg manually.">>) >>
           /\ IF outcome = "installFailed"
              THEN /\ exitCode' = <<1>>
                   /\ pc' = "exited"
                   /\ promise' = promise
              ELSE /\ exitCode' = exitCode
                   /\ pc' = "argv"
                   /\ promise' = [promise EXCEPT !.main = "pending"]
  /\ UNCHANGED <<variant, dirEntries, files, argv, allFiles, flacFiles, idx,
                 cur, child, results>>

\* main, lines 59-68 of src/index.js (30-39 of part_000): the choice of the
\* mode and the call of processSingleFile or processDirectory.
MainDispatch ==
  /\ \/ pc = "argv"
     \/ pc = "main" /\ variant = "part_000"
  /\ IF Truthy(argv.basename)
     THEN /\ log' = Append(log, Out(
                      (IF variant = "index" THEN <<"\n">> ELSE <<>>)
                      \o <<"Manual mode: Processing files for base name \"">>
                      \o argv.basename.value \o <<"\"">>))
          /\ cur' = argv.basename.value
          /\ pc' = "check"
          /\ promise' = [promise EXCEPT !.main = "pending",
                                        !.processSingleFile = "pending"]
     ELSE /\ log' = Append(log, Out(
                      (IF variant = "index" THEN <<"\n">> ELSE <<>>)
                      \o <<"Automatic mode: Scanning for files in: ">>
                      \o CurrentDir
                      \o (IF variant = "index" THEN <<>> ELSE <<"\n">>)))
          /\ cur' = cur
          /\ pc' = "scan"
          /\ promise' = [promise EXCEPT !.main = "pending",
                                        !.processDirectory = "pending"]
  /\ UNCHANGED <<variant, dirEntries, files, argv, allFiles, flacFiles, idx,
                 child, calls, results, exitCode>>

\* main, line 70: 'Done.', the end of main, and the exit of the process, which
\* has nothing left to wait for.
MainDone ==
  /\ pc = "done"
  /\ log' = Append(log, Out(<<"\nDone.">>))
  /\ promise' = [promise EXCEPT !.main = "fulfilled"]
  /\ exitCode' = <<0>>
  /\ pc' = "exited"
  /\ UNCHANGED <<variant, dirEntries, files, argv, allFiles, flacFiles, idx,
                 cur, child, calls, results>>

----------------------------------------------------------------------------
(* processDirectory                                                        *)

\* processDirectory, lines 74-83: the scan, the filter, the empty case and
\* the first iteration of the loop up to the call of processSingleFile.
ProcessDirectoryScan ==
  /\ pc = "scan"
  /\ \E listing \in Listings(files) :
       /\ allFiles' = listing
       /\ flacFiles' = FlacFilesOf(listing)
       /\ calls' = Append(calls, Call("readdirSync", CurrentDir, <<>>))
       /\ IF Len(FlacFilesOf(listing)) = 0
          THEN /\ log' = Append(log, Out(<<"No .flac files found in this directory.">>))
               /\ promise' = [promise EXCEPT !.processDirectory = "fulfilled"]
               /\ pc' = "done"
               /\ UNCHANGED <<idx, cur>>
          ELSE /\ log' = log
               /\ idx' = 1
               /\ cur' = BaseNameOf(FlacFilesOf(listing)[1])
               /\ promise' = [promise EXCEPT !.processSingleFile = "pending"]
               /\ pc' = "check"
  /\ UNCHANGED <<variant, dirEntries, files, argv, child, results, exitCode>>

\* A faulty loop: processSingleFile is called without await, so that the code
\* after the call runs while the engine child of the item is still running.
ResumeAfterItem_NoAwait ==
  /\ pc \in {"resume", "await"}
  /\ IF Truthy(argv.basename)
     THEN /\ pc' = "done"
          /\ UNCHANGED <<idx, cur, promise>>
     ELSE IF idx < Len(flacFiles)
          THEN /\ idx' = idx + 1
               /\ cur' = BaseNameOf(flacFiles[idx + 1])
               /\ promise' = [promise EXCEPT !.processSingleFile = "pending",
                                             !.runFfmpeg = "none"]
               /\ pc' = "check"
          ELSE /\ promise' = [promise EXCEPT !.processDirectory = "fulfilled"]
               /\ pc' = "done"
               /\ UNCHANGED <<idx, cur>>
  /\ UNCHANGED <<variant, dirEntries, files, argv, allFiles, flacFiles, child,
                 calls, log, results, exitCode>>

\* The code that runs when the awaited processSingleFile call has fulfilled:
\* in main (line 64) the way to 'Done.'; in processDirectory (lines 82-85)
\* the next iteration, or the end of the loop and of processDirectory.
ResumeAfterItem ==
  /\ pc = "resume"
  /\ IF Truthy(argv.basename)
     THEN /\ pc' = "done"
          /\ UNCHANGED <<idx, cur, promise>>
     ELSE IF idx < Len(flacFiles)
          THEN /\ idx' = idx + 1
               /\ cur' = BaseNameOf(flacFiles[idx + 1])
               /\ promise' = [promise EXCEPT !.processSingleFile = "pending",
                                             !.runFfmpeg = "none"]
               /\ pc' = "check"
          ELSE /\ promise' = [promise EXCEPT !.processDirectory = "fulfilled"]
               /\ pc' = "done"
               /\ UNCHANGED <<idx, cur>>
  /\ UNCHANGED <<variant, dirEntries, files, argv, allFiles, flacFiles, child,
                 calls, log, results, exitCode>>

----------------------------------------------------------------------------
(* processSingleFile and runFfmpeg                                         *)

\* processSingleFile, lines 89-99, with the synchronous part of runFfmpeg
\* (lines 103-135: the arguments, spawn, the two listeners) when the three
\* inputs exist.  The events of the child come later.
ProcessSingleFile ==
  /\ pc = "check"
  /\ IF AllInputsExist(cur)
     THEN /\ log' = Append(log, Out(<<"Processing: ">>
                                    \o basename(flacPath(cur), <<>>)))
          /\ calls' = calls \o ExistsCalls(cur) \o
                      << Call("spawn", ffmpegPath,
                              ffmpegArgs(flacPath(cur), jpgPath(cur), lycPath(cur),
                                         outputPath(cur), argv.lang)) >>
          /\ child' = "running"
          /\ promise' = [promise EXCEPT !.runFfmpeg = "pending"]
          /\ results' = results
          /\ pc' = "await"
     ELSE /\ log' = Append(log, Out(<<"Skipping: Could not find all required files for base name \"">>
                                    \o cur \o <<"\"">>))
          /\ calls' = calls \o ExistsCalls(cur)
          /\ child' = child
          /\ promise' = [promise EXCEPT !.processSingleFile = "fulfilled"]
          /\ results' = Append(results, [baseName |-> cur, outcome |-> "Skipped",
                                         event |-> NoEvent])
          /\ pc' = "resume"
  /\ UNCHANGED <<variant, dirEntries, files, argv, allFiles, flacFiles, idx,
                 cur, exitCode>>

\* runFfmpeg, lines 122-130: the 'close' listener, for a child that has not
\* emitted 'error'.  Code 0 resolves the promise, and processSingleFile, which
\* awaits it, returns; any other code rejects it.  ffmpeg has written the
\* output file when it exits 0.
OnClose ==
  /\ child = "running"
  /\ \E ev \in CloseEventsOf(cur) :
       IF CodeIsZero(ev)
       THEN /\ log' = Append(log, Out(<<"Successfully created: ">>
                                      \o basename(outputPath(cur), <<>>)))
            /\ promise' = [promise EXCEPT !.runFfmpeg = "fulfilled",
                                          !.processSingleFile = "fulfilled"]
            /\ results' = Append(results, [baseName |-> cur, outcome |-> "Converted",
                                           event |-> ev])
            /\ files' = files \cup {basename(outputPath(cur), <<>>)}
            /\ pc' = "resume"
       ELSE /\ log' = Append(log, Err(<<"FFmpeg exited with code ">> \o CodeText(ev)
                                      \o <<" for ">> \o basename(flacPath(cur), <<>>)))
            /\ promise' = [promise EXCEPT !.runFfmpeg = "rejected"]
            /\ results' = Append(results, [baseName |-> cur, outcome |-> "Failed",
                                           event |-> ev])
            /\ files' = files
            /\ pc' = "throw"
  /\ child' = "closed"
  /\ UNCHANGED <<variant, dirEntries, argv, allFiles, flacFiles, idx, cur,
                 calls, exitCode>>

\* runFfmpeg, lines 132-135: the 'error' listener; the child could not be
\* started.  Its 'close' event is still to come.
OnError ==
  /\ child = "running"
  /\ log' = Append(log, Err(<<"Failed to start FFmpeg for ">>
                            \o basename(flacPath(cur), <<>>)))
  /\ promise' = [promise EXCEPT !.runFfmpeg = "rejected"]
  /\ results' = Append(results, [baseName |-> cur, outcome |-> "Failed",
                                 event |-> ErrorEvent])
  /\ child' = "errored"
  /\ pc' = "throw"
  /\ UNCHANGED <<variant, dirEntries, files, argv, allFiles, flacFiles, idx,
                 cur, calls, exitCode>>

\* runFfmpeg, lines 122-130 again: the 'close' listener, for a child that has
\* emitted 'error' before.  The promise is settled already, so reject() does
\* nothing; the message is written all the same.
OnCloseAfterError ==
  /\ child = "errored"
  /\ exitCode = <<>>
  /\ \E ev \in CloseEventsAfterError :
       log' = Append(log, Err(<<"FFmpeg exited with code ">> \o CodeText(ev)
                              \o <<" for ">> \o basename(flacPath(cur), <<>>)))
  /\ child' = "closed"
  /\ UNCHANGED <<variant, dirEntries, files, argv, pc, allFiles, flacFiles,
                 idx, cur, promise, calls, results, exitCode>>

\* The rejection of runFfmpeg's promise is thrown by the await of
\* processSingleFile (line 96), by the await of processDirectory (line 84) and
\* by the await of main (line 64 or 67): none is inside a try, and main()
\* (line 139) has no catch.  Node then either ends the process with status 1
\* (--unhandled-rejections=throw, the default from Node 15 on) or prints a
\* warning and goes on (the default before).
UnhandledRejection ==
  /\ pc = "throw"
  /\ promise' = [promise EXCEPT
                   !.processSingleFile = "rejected",
                   !.processDirectory = IF Truthy(argv.basename) THEN @ ELSE "rejected",
                   !.main = "rejected"]
  /\ \E mode \in {"throw", "warn"} :
       IF mode = "throw"
       THEN /\ exitCode' = <<1>>
            /\ pc' = "exited"
       ELSE /\ exitCode' = exitCode
            /\ pc' = "idle"
  /\ UNCHANGED <<variant, dirEntries, files, argv, allFiles, flacFiles, idx,
                 cur, child, calls, log, results>>

\* After the warning the process lives until the child's handles are closed,
\* and exits with status 0.
ExitWhenIdle ==
  /\ pc = "idle"
  /\ child # "errored"
  /\ exitCode' = <<0>>
  /\ pc' = "exited"
  /\ UNCHANGED <<variant, dirEntries, files, argv, allFiles, flacFiles, idx,
                 cur, child, promise, calls, log, results>>

Next ==
  \/ EnsureFfmpegIsAvailable
  \/ MainDispatch
  \/ MainDone
  \/ ProcessDirectoryScan
  \/ ResumeAfterItem
  \/ ProcessSingleFile
  \/ OnClose
  \/ OnError
  \/ OnCloseAfterError
  \/ UnhandledRejection
  \/ ExitWhenIdle

Spec == Init /\ [][Next]_vars

----------------------------------------------------------------------------
(* Vocabulary of the properties.  These definitions describe what is       *)
(* observed of a run; they use none of the program's helpers.              *)

Range(seq) == {seq[i] : i \in 1..Len(seq)}

\* The child processes started so far, in order.
SpawnCalls == SelectSeq(calls, LAMBDA c : c.op = "spawn")

\* The existence checks made on the inputs of items (not on the ffmpeg binary).
ItemExistsCalls ==
  SelectSeq(calls, LAMBDA c : c.op = "existsSync" /\ c.path # ffmpegPath)

\* The directory scans made so far.
ScanCalls == SelectSeq(calls, LAMBDA c : c.op = "readdirSync")

\* The results of the items for which the engine was started.
EngineResults == SelectSeq(results, LAMBDA r : r.outcome # "Skipped")

\* An engine child has been started and its outcome is not known yet.
InFlight == IF pc = "await" THEN 1 ELSE 0

\* The pre-flight dependency check has failed.
DepCheckFailed ==
  \E i \in 1..Len(log) : log[i] = Err(<<"Failed to download FFmpeg automatically.">>)

\* The pre-flight dependency check has been made.
DepCheckMade ==
  \E i \in 1..Len(calls) : calls[i] = [op |-> "existsSync", path |-> ffmpegPath,
                                       args |-> <<>>]

\* The pre-flight dependency check has been made and has passed.
DepCheckPassed == DepCheckMade /\ ~DepCheckFailed

\* The run is in automatic mode and has scanned the directory.
AutomaticRun == ~Truthy(argv.basename) /\ Len(ScanCalls) > 0

\* How often a line was written to the console.
Count(line) == Cardinality({i \in 1..Len(log) : log[i] = line})

\* The name dir/base.ext, written out.
PathOf(base, ext) == CurrentDir \o <<"/">> \o base \o <<".">> \o ext

\* The file base.ext is in the working directory.
Present(base, ext) == (base \o <<".">> \o ext) \in files

\* The subtitle extension of the running variant.
SubtitleExt == IF variant = "index" THEN <<"l", "r", "c">> ELSE <<"l", "y", "c">>

\* The three inputs of base are in the working directory.
Complete(base) ==
  /\ Present(base, <<"f", "l", "a", "c">>)
  /\ Present(base, <<"j", "p", "g">>)
  /\ Present(base, SubtitleExt)

\* An entry whose name ends in ".flac" in any letter case, after at least
\* one more character.
IsAudioEntry(e) ==
  /\ Len(e) > 5
  /\ e[Len(e) - 4] = "."
  /\ e[Len(e) - 3] \in {"f", "F"}
  /\ e[Len(e) - 2] \in {"l", "L"}
  /\ e[Len(e) - 1] \in {"a", "A"}
  /\ e[Len(e)] \in {"c", "C"}

\* The name of an audio entry without its last five characters.
StemOf(e) == [i \in 1..(Len(e) - 5) |-> e[i]]

\* The audio entries of a listing, in its order, and their stems.
AudioEntries(listing) == SelectSeq(listing, IsAudioEntry)
ExpectedCandidates(listing) ==
  [i \in 1..Len(AudioEntries(listing)) |-> StemOf(AudioEntries(listing)[i])]

----------------------------------------------------------------------------
(* C1 *)

\* C1: in automatic mode with N candidates, the run ends with exactly N
\* results, one per candidate in order, however earlier candidates ended.
C1_AllCandidatesProcessed ==
  (pc = "exited" /\ AutomaticRun) =>
    /\ Len(results) = Len(ExpectedCandidates(allFiles))
    /\ \A i \in 1..Len(results) :
         results[i].baseName = ExpectedCandidates(allFiles)[i]

----------------------------------------------------------------------------
(* C2 *)

\* C2: an engine launch failure or non-zero exit never leaves
\* processSingleFile, processDirectory or main as a rejected promise.
C2_NoRejectionEscapes ==
  /\ promise.processSingleFile # "rejected"
  /\ promise.processDirectory # "rejected"
  /\ promise.main # "rejected"

----------------------------------------------------------------------------
(* C3 *)

\* At least one of base.flac, base.jpg and base.<sub> is not in the directory.
MissingInput(base, sub) ==
  \/ ~Present(base, <<"f", "l", "a", "c">>)
  \/ ~Present(base, <<"j", "p", "g">>)
  \/ ~Present(base, sub)

\* Every item with an input missing was Skipped, the engine child in flight
\* belongs to an item with no input missing, and there are as many engine
\* children as items that were not Skipped.
SkippedWhenMissing(sub) ==
  /\ \A i \in 1..Len(results) :
       MissingInput(results[i].baseName, sub) => results[i].outcome = "Skipped"
  /\ pc = "await" => ~MissingInput(cur, sub)
  /\ Len(SpawnCalls) = Len(EngineResults) + InFlight

\* C3, as claimed: an item for which one of <base>.flac, <base>.jpg,
\* <base>.lrc is absent is Skipped and starts no engine child.
C3_SkippedWhenLrcMissing == SkippedWhenMissing(<<"l", "r", "c">>)

\* C3, amended: an item for which one of <base>.flac, <base>.jpg and the
\* subtitle file of the running variant (<base>.lrc in src/index.js,
\* <base>.lyc in src/unnamed/part_000) is absent is Skipped and starts no
\* engine child.
C3_SkippedWhenInputMissing == SkippedWhenMissing(SubtitleExt)

\* An item whose audio file is there and whose subtitle file is not has been
\* Skipped, in a run that has also started the engine for another item.
C3_Witness ==
  /\ Len(SpawnCalls) > 0
  /\ \E i \in 1..Len(results) :
       /\ results[i].outcome = "Skipped"
       /\ Present(results[i].baseName, <<"f", "l", "a", "c">>)
       /\ ~Present(results[i].baseName, SubtitleExt)

----------------------------------------------------------------------------
(* C4 *)

\* The argument list of the engine for an item, written out.
EngineContract(base, lang) ==
  << <<"-i">>, PathOf(base, <<"f", "l", "a", "c">>),
     <<"-i">>, PathOf(base, <<"j", "p", "g">>),
     <<"-i">>, PathOf(base, SubtitleExt),
     <<"-c:a">>, <<"alac">>, <<"-c:v">>, <<"copy">>, <<"-c:s">>, <<"mov_text">>,
     <<"-map">>, <<"0:a">>, <<"-map">>, <<"1:v">>, <<"-map">>, <<"2:s">>,
     <<"-metadata:s:s:0">>, <<"language=">> \o lang,
     <<"-disposition:v">>, <<"attached_pic">>,
     <<"-y">>, PathOf(base, <<"m", "4", "a">>) >>

\* The base name of the item the k-th engine child was started for.
BaseOfSpawn(k) ==
  IF k <= Len(EngineResults) THEN EngineResults[k].baseName ELSE cur

\* C4: for an item whose three inputs exist the engine is started exactly
\* once, with the argument list of the contract built from the item's paths
\* and the language tag, and the item is Converted exactly if the child
\* closes with code 0.
C4_EngineOncePerCompleteItem ==
  /\ \A i \in 1..Len(results) :
       Complete(results[i].baseName) => results[i].outcome # "Skipped"
  /\ Len(SpawnCalls) = Len(EngineResults) + InFlight
  /\ \A k \in 1..Len(SpawnCalls) :
       /\ SpawnCalls[k].path = ffmpegPath
       /\ SpawnCalls[k].args = EngineContract(BaseOfSpawn(k), argv.lang)
       /\ Complete(BaseOfSpawn(k))
  /\ \A k \in 1..Len(EngineResults) :
       EngineResults[k].outcome = "Converted"
         <=> EngineResults[k].event = [type |-> "close", code |-> 0, isNull |-> FALSE]

\* One complete item has been Converted and another, of another base name,
\* has Failed on a child that closed with a code other than 0.
C4_Witness ==
  \E i, j \in 1..Len(results) :
    /\ results[i].outcome = "Converted"
    /\ results[j].outcome = "Failed"
    /\ results[j].event.type = "close"
    /\ results[i].baseName # results[j].baseName
    /\ Complete(results[i].baseName)
    /\ Complete(results[j].baseName)

----------------------------------------------------------------------------
(* C5 *)

\* C5: a run whose pre-flight check passed ends with status 0, also when
\* items have Failed; a run ends with status 1 only if the check failed.
C5_ExitStatus ==
  (pc = "exited" /\ DepCheckMade) =>
    exitCode = IF DepCheckFailed THEN <<1>> ELSE <<0>>

----------------------------------------------------------------------------
(* C6 *)

DoneLine == Out(<<"\nDone.">>)

\* C6: 'Done.' is written at most once, only after every candidate has been
\* processed, and every run that passed the pre-flight check has written it
\* by the time the process ends.
C6_DoneOnceAfterAllItems ==
  /\ Count(DoneLine) <= 1
  /\ (Count(DoneLine) = 1 /\ AutomaticRun) =>
       Len(results) = Len(ExpectedCandidates(allFiles))
  /\ (pc = "exited" /\ DepCheckPassed) => Count(DoneLine) = 1

----------------------------------------------------------------------------
(* C7 *)

\* C7: the scan yields one candidate for each entry of the working directory
\* whose name ends in ".flac" in any letter case, the entry's name without
\* that extension, and none for any other entry; the candidates are
\* processed in the order of the directory listing.
C7_DiscoverYieldsAudioStems ==
  AutomaticRun =>
    /\ Cardinality(Range(allFiles)) = Len(allFiles)
    /\ Range(allFiles) \subseteq files
    /\ \A f \in files \ Range(allFiles) :
         \E i \in 1..Len(results) :
           /\ results[i].outcome = "Converted"
           /\ f = results[i].baseName \o <<".", "m", "4", "a">>
    /\ flacFiles = AudioEntries(allFiles)
    /\ idx \in 0..Len(flacFiles)
    /\ idx = 0 <=> flacFiles = <<>>
    /\ idx >= 1 => cur = ExpectedCandidates(allFiles)[idx]
    /\ Len(results) \in {idx - 1, idx}
    /\ \A i \in 1..Len(results) :
         results[i].baseName = ExpectedCandidates(allFiles)[i]

\* A scan has found two candidates, one of them with the extension in
\* capitals, among other entries, and is at its second candidate.
C7_Witness ==
  /\ AutomaticRun
  /\ Len(flacFiles) = 2
  /\ Len(allFiles) > 3
  /\ c_FLAC \in Range(flacFiles)
  /\ dotflac \in Range(allFiles)
  /\ idx = 2

----------------------------------------------------------------------------
(* C8 *)

\* C8: when the pre-flight check fails the process ends with status 1 before
\* any directory scan, existence check of an input or engine child; and a
\* process that ends without main having reached its end has failed the
\* pre-flight check.
C8_OnlyDepCheckEndsRunEarly ==
  /\ DepCheckFailed =>
       /\ pc = "exited"
       /\ exitCode = <<1>>
       /\ Len(ScanCalls) = 0
       /\ Len(ItemExistsCalls) = 0
       /\ Len(SpawnCalls) = 0
       /\ results = <<>>
  /\ (pc = "exited" /\ variant = "index" /\ promise.main # "fulfilled")
       => DepCheckFailed

----------------------------------------------------------------------------
(* C9 *)

NothingFoundLine == Out(<<"No .flac files found in this directory.">>)

\* C9: an automatic run over a directory without audio entries reports that
\* nothing was found, starts no engine child, checks the existence of no
\* input, processes no item, and ends with status 0.
C9_EmptyScanIsClean ==
  (AutomaticRun /\ AudioEntries(allFiles) = <<>>) =>
    /\ Count(NothingFoundLine) = 1
    /\ Len(SpawnCalls) = 0
    /\ Len(ItemExistsCalls) = 0
    /\ results = <<>>
    /\ pc \in {"done", "exited"}
    /\ pc = "exited" => (exitCode = <<0>> /\ promise.main = "fulfilled")

\* An automatic run over a directory that holds files, none of them audio,
\* has ended.
C9_Witness ==
  /\ AutomaticRun
  /\ pc = "exited"
  /\ Len(allFiles) >= 2
  /\ AudioEntries(allFiles) = <<>>
  /\ Count(NothingFoundLine) = 1

----------------------------------------------------------------------------
(* C10 *)

\* C10: at the end of an automatic run the engine children are those of the
\* complete candidates, one each, in the order of the candidates, each with
\* the language tag of the run.
C10_InvocationsFollowCompleteCandidates ==
  (pc = "exited" /\ AutomaticRun) =>
    LET complete == SelectSeq(ExpectedCandidates(allFiles), Complete)
    IN  /\ Len(SpawnCalls) = Len(complete)
        /\ \A k \in 1..Len(SpawnCalls) :
             /\ SpawnCalls[k].args[2] = PathOf(complete[k], <<"f", "l", "a", "c">>)
             /\ SpawnCalls[k].args[20] = <<"language=">> \o argv.lang

----------------------------------------------------------------------------
(* C11 *)

\* C11: whenever the positional base name is present on the command line,
\* whatever its value (the empty string included), the run makes no directory
\* scan, processes no item but the given base name and, once the pre-flight
\* check has passed, ends with exactly that one item processed; a directory
\* scan is made only when the positional argument is absent.
C11_PresentBasenameIsManual ==
  /\ argv.basename.present =>
       /\ Len(ScanCalls) = 0
       /\ Len(results) <= 1
       /\ \A i \in 1..Len(results) : results[i].baseName = argv.basename.value
       /\ (pc = "exited" /\ ~DepCheckFailed) => Len(results) = 1
  /\ Len(ScanCalls) > 0 => ~argv.basename.present

----------------------------------------------------------------------------
(* C12 *)

\* C12: processing a complete item whose output file is already in the
\* directory, left by an earlier run or by an earlier item of this run, goes
\* as it does without that file: the three inputs are checked and nothing
\* else, the item is neither Skipped nor Failed by the processor, and the
\* engine is started with the argument list of the contract, "-y" before the
\* output path, the same list as for every earlier child of that base name.
C12_ExistingOutputChangesNothing ==
  [][(pc = "check" /\ Complete(cur) /\ Present(cur, <<"m", "4", "a">>)) =>
       LET n == Len(SpawnCalls') IN
       /\ pc' = "await"
       /\ results' = results
       /\ n = Len(SpawnCalls) + 1
       /\ SpawnCalls'[n].args = EngineContract(cur, argv.lang)
       /\ SpawnCalls'[n].args[23] = <<"-y">>
       /\ SpawnCalls'[n].args[24] = PathOf(cur, <<"m", "4", "a">>)
       /\ \A k \in 1..Len(SpawnCalls) :
            BaseOfSpawn(k) = cur => SpawnCalls[k].args = SpawnCalls'[n].args
       /\ Len(ItemExistsCalls') = Len(ItemExistsCalls) + 3
       /\ \A k \in 1..Len(ItemExistsCalls') :
            ItemExistsCalls'[k].path # PathOf(cur, <<"m", "4", "a">>)
    ]_vars

\* The directory listing held the output file of a complete item, and the
\* item has been Converted all the same.
C12_Witness ==
  \E i \in 1..Len(results) :
    /\ results[i].outcome = "Converted"
    /\ Complete(results[i].baseName)
    /\ (results[i].baseName \o <<".", "m", "4", "a">>) \in Range(allFiles)

----------------------------------------------------------------------------
(* C13 *)

\* The items whose existence check has begun: each begins with one check of
\* its audio path.
ItemsChecked ==
  Len(SelectSeq(ItemExistsCalls,
                LAMBDA c : SubSeq(c.path, Len(c.path) - 4, Len(c.path))
                             = <<".", "f", "l", "a", "c">>))

\* C13: at every point of a run at most one engine child is in flight: the
\* children started are at most one more than the children that have emitted
\* 'close' or 'error', exactly one more while a child runs, and the items
\* whose existence check has been made are at most one more than the items
\* whose outcome is known.
C13_OneChildInFlight ==
  /\ Len(SpawnCalls) - Len(EngineResults) = (IF child = "running" THEN 1 ELSE 0)
  /\ \A k \in 1..Len(EngineResults) :
       EngineResults[k].event.type \in {"close", "error"}
  /\ ItemsChecked - Len(results) \in {0, 1}
  /\ ItemsChecked - Len(results) = 1 => child = "running"

\* A second child is running, after the first has closed.
C13_Witness ==
  /\ Len(SpawnCalls) = 2
  /\ Len(EngineResults) = 1
  /\ EngineResults[1].event.type = "close"
  /\ child = "running"

----------------------------------------------------------------------------
(* C14 *)

\* base.ext is in the working directory and is a regular file.
RegularFile(base, ext) ==
  Present(base, ext) /\ (base \o <<".">> \o ext) \notin dirEntries

\* The three inputs of base are regular files of the working directory.
CompleteRegular(base) ==
  /\ RegularFile(base, <<"f", "l", "a", "c">>)
  /\ RegularFile(base, <<"j", "p", "g">>)
  /\ RegularFile(base, SubtitleExt)

\* C14: an item is treated as complete, and the engine is started for it, if
\* and only if each of its three input paths is a regular file: an input that
\* is a directory makes the item Skipped, and no engine child is started for
\* an item whose audio entry is a directory.
C14_CompleteMeansRegularFiles ==
  /\ \A i \in 1..Len(results) :
       results[i].outcome # "Skipped" <=> CompleteRegular(results[i].baseName)
  /\ \A k \in 1..Len(SpawnCalls) : CompleteRegular(BaseOfSpawn(k))

----------------------------------------------------------------------------
(* C15 *)

\* C15: within one run no output path is the target of two engine children:
\* the last argument of every spawn call differs from that of every other.
C15_OutputPathsDistinct ==
  \A j, k \in 1..Len(SpawnCalls) :
    j # k => SpawnCalls[j].args[24] # SpawnCalls[k].args[24]

----------------------------------------------------------------------------
(* C16 *)

\* C16: in an automatic run the audio path built for the i-th item is the
\* i-th audio entry that the scan found, in the letter case of the listing,
\* and an item whose image and subtitle files are in the directory is never
\* Skipped.
C16_DiscoveredAudioIsFound ==
  AutomaticRun =>
    \A i \in 1..Len(results) :
      LET base == results[i].baseName IN
      (Present(base, <<"j", "p", "g">>) /\ Present(base, SubtitleExt)) =>
        /\ PathOf(base, <<"f", "l", "a", "c">>)
             = CurrentDir \o <<"/">> \o AudioEntries(allFiles)[i]
        /\ results[i].outcome # "Skipped"

----------------------------------------------------------------------------
(* C17 *)

\* How many lines of the console begin with the given words.
CountBeginning(stream, words) ==
  Cardinality({i \in 1..Len(log) :
                 /\ log[i].stream = stream
                 /\ Len(log[i].text) > 0
                 /\ log[i].text[1] = words})

\* The child of the last engine result has emitted 'error' and then 'close'.
ClosedAfterError ==
  /\ child = "closed"
  /\ Len(EngineResults) > 0
  /\ EngineResults[Len(EngineResults)].event.type = "error"

\* C17: each engine child gives exactly one outcome, that of its first event:
\* 'close' with code 0 gives Converted, 'close' with another code or with the
\* null code gives Failed, 'error' gives Failed; a 'close' that follows an
\* 'error' leaves the outcome and the rejected promise as they are and writes
\* one more failure line; success lines are as many as Converted children.
C17_FirstEventFixesOutcome ==
  /\ Len(EngineResults) <= Len(SpawnCalls)
  /\ child # "running" => Len(EngineResults) = Len(SpawnCalls)
  /\ \A k \in 1..Len(EngineResults) :
       LET r == EngineResults[k] IN
       \/ /\ r.event.type = "close" /\ ~r.event.isNull /\ r.event.code = 0
          /\ r.outcome = "Converted"
       \/ /\ r.event.type = "close" /\ (r.event.isNull \/ r.event.code # 0)
          /\ r.outcome = "Failed"
       \/ /\ r.event.type = "error"
          /\ r.outcome = "Failed"
  /\ CountBeginning("stdout", "Successfully created: ")
       = Cardinality({k \in 1..Len(EngineResults) :
                        EngineResults[k].outcome = "Converted"})
  /\ CountBeginning("stderr", "Failed to start FFmpeg for ")
       = Cardinality({k \in 1..Len(EngineResults) :
                        EngineResults[k].event.type = "error"})
  /\ CountBeginning("stderr", "FFmpeg exited with code ")
       = Cardinality({k \in 1..Len(EngineResults) :
                        /\ EngineResults[k].event.type = "close"
                        /\ EngineResults[k].outcome = "Failed"})
         + (IF ClosedAfterError THEN 1 ELSE 0)
  /\ ClosedAfterError => promise.runFfmpeg = "rejected"

\* A child has emitted 'error' and then 'close': its item is Failed, and both
\* failure lines are on the console.
C17_Witness ==
  /\ ClosedAfterError
  /\ EngineResults[Len(EngineResults)].outcome = "Failed"
  /\ CountBeginning("stderr", "Failed to start FFmpeg for ") = 1
  /\ CountBeginning("stderr", "FFmpeg exited with code ") = 1

====
